---- MODULE Spec2Model ----
(***************************************************************************)
(* Model of the Ecotonova music core: the pitch coordinate algebra         *)
(* (src/src/theory/pitch.rs, src/src/utils/mod.rs), the interval           *)
(* calculator (src/src/theory/interval.rs), the scale validator            *)
(* (src/src/theory/scale.rs) and the sample synthesis pipeline             *)
(* (src/src/instruments/player.rs).                                        *)
(*                                                                         *)
(* Representation of f32.  Every f32 the modelled code computes is a       *)
(* multiple of 0.5 of magnitude far below 2^23, so f32 arithmetic on them  *)
(* is exact.  An f32 that holds a coordinate, a distance or an interval    *)
(* step, a value v in whole-step units, is stored as the integer 2*v       *)
(* ("half units"): 0.5 is 1, 6.0 is 12.  Addition and subtraction of such  *)
(* values are integer addition and subtraction of the stored values; the   *)
(* quotient of two of them, stored a and b, is the real number a/b.  An    *)
(* f32 that holds a count of semitones (shift_steps) is a whole number and *)
(* is stored as it is.  The argument of Pitch::try_from(f32) alone is      *)
(* stored in quarter units, as its section says.                           *)
(*                                                                         *)
(* Representation of text.  A String is a sequence of one-character        *)
(* strings: "C#0" is <<"C", "#", "0">>.                                    *)
(*                                                                         *)
(* Integer arithmetic of fixed width (u8, u16, i8) either completes with   *)
(* a value or panics.  With overflow checks on (rustc's default for debug  *)
(* builds) an overflowing +, - or * panics; with overflow checks off       *)
(* (release builds) it wraps modulo 2^width.  The build profile is the     *)
(* variable overflow_checks, chosen in Init.                               *)
(***************************************************************************)
EXTENDS Integers, Sequences, FiniteSets, TLC

VARIABLES
    overflow_checks, \* TRUE: arithmetic overflow panics; FALSE: it wraps
    p1, p2,          \* the two pitches handed to Interval::new
    interval,        \* the Interval built from them, or NoInterval
    result,          \* what the last operation on p1, p2 or interval returned
    text,            \* the String a parse-then-format run starts from
    origin,          \* the Pitch a format-then-parse run starts from
    parsed,          \* the Result<Pitch, ()> of the last parse
    shown,           \* the String the last format produced
    stage,           \* how far the text run got
    self,            \* the receiver of get_the_nearest_pitch
    others,          \* its argument, a Vec<Pitch>
    nearest,         \* the Pitch it returned, or NoPitch
    shift,           \* shift_steps computed from (self, nearest), or NoShift
    folder_exists,   \* whether the instrument's sample folder exists
    dir,             \* the entries of the sample folder
    call,            \* what the last generate_pitch_samples call did
    earlier,         \* what the call before the last one did
    given_steps,     \* the steps handed to Scale::try_new
    scale,           \* the Result<Scale, ()> it returned
    f32_value,       \* the f32 handed to Pitch::try_from
    converted        \* the Result<Pitch, ()> it returned

vars == <<overflow_checks, p1, p2, interval, result, text, origin, parsed,
          shown, stage, self, others, nearest, shift, folder_exists, dir, call,
          earlier,
          given_steps, scale, f32_value, converted>>

intervalVars == <<p1, p2, interval, result>>
textVars     == <<text, origin, parsed, shown, stage>>
resolverVars == <<self, others, nearest, shift>>
playerVars   == <<folder_exists, dir, call, earlier>>
scaleVars    == <<given_steps, scale>>
coordinateVars == <<f32_value, converted>>

----------------------------------------------------------------------------
(* Bounds of the model *)

\* Interval inputs take octaves 0..MaxOctave.
MaxOctave == 2

\* Input texts are one character followed by at most MaxTail more.
MaxTail == 4

\* Candidate lists handed to get_the_nearest_pitch have at most MaxOthers
\* pitches.
MaxOthers == 3

\* The sample folder holds at most MaxEntries entries.
MaxEntries == 3

----------------------------------------------------------------------------
(* Fixed-width integers *)

\* A completed computation with value v, and a panicked one.
Done(v) == [panic |-> FALSE, val |-> v]
Panicked == [panic |-> TRUE, val |-> 0]

\* The outcome of an arithmetic operation on an unsigned type of `bits` bits
\* whose mathematical result is x.
Unsigned(x, bits) ==
    IF x >= 0 /\ x < 2^bits THEN Done(x)
    ELSE IF overflow_checks THEN Panicked
    ELSE Done(x % (2^bits))

\* The same for a signed (two's complement) type.
Signed(x, bits) ==
    IF x >= -(2^(bits - 1)) /\ x < 2^(bits - 1) THEN Done(x)
    ELSE IF overflow_checks THEN Panicked
    ELSE Done(((x + 2^(bits - 1)) % (2^bits)) - 2^(bits - 1))

\* `x as u8` for an i8 x: a reinterpreting cast, never panics.
AsU8(x) == x % 256

\* `x as u16` for a non-NaN f32 of real value num/den: saturating, truncating
\* toward zero, never panics.
F32AsU16(num, den) ==
    LET q == IF num >= 0 THEN num \div den ELSE -((-num) \div den)
    IN  IF q < 0 THEN 0 ELSE IF q > 65535 THEN 65535 ELSE q

----------------------------------------------------------------------------
(* theory/pitch.rs: PitchName, Accidental, Pitch *)

PitchName == {"C", "D", "E", "F", "G", "A", "B"}
Accidental == {"Sharp", "Flat", "DoubleSharp", "DoubleFlat", "None"}

Pitch_new(name, octave, accidental) ==
    [name |-> name, accidental |-> accidental, octave |-> octave]

Pitch_new_without_accidental(name, octave) ==
    [name |-> name, accidental |-> "None", octave |-> octave]

\* impl From<Pitch> for f32, in half units.
f32_from_Pitch(value) ==
    LET pitch_value ==
            CASE value.name = "C" -> 0
              [] value.name = "D" -> 2
              [] value.name = "E" -> 4
              [] value.name = "F" -> 5
              [] value.name = "G" -> 7
              [] value.name = "A" -> 9
              [] value.name = "B" -> 11
        accidental_value ==
            CASE value.accidental = "Sharp" -> 1
              [] value.accidental = "Flat" -> -1
              [] value.accidental = "DoubleSharp" -> 2
              [] value.accidental = "DoubleFlat" -> -2
              [] value.accidental = "None" -> 0
    IN  (pitch_value + accidental_value) + (value.octave * 12)

\* f32::partial_cmp on two stored values; None only for NaN, which no
\* conversion from a Pitch produces.
f32_partial_cmp(left, right) ==
    IF left < right THEN "Less"
    ELSE IF left = right THEN "Equal"
    ELSE "Greater"

\* Equality of the fields, as #[derive(PartialEq)] would give.
Pitch_eq_derived(a, b) == a = b

\* impl PartialEq for Pitch
Pitch_eq(a, b) ==
    LET left == f32_from_Pitch(a)
        right == f32_from_Pitch(b)
    IN  left = right

\* impl PartialOrd for Pitch
Pitch_partial_cmp(a, b) ==
    LET left == f32_from_Pitch(a)
        right == f32_from_Pitch(b)
    IN  f32_partial_cmp(left, right)

\* The provided methods of PartialOrd, each derived from partial_cmp.
Pitch_lt(a, b) == Pitch_partial_cmp(a, b) = "Less"
Pitch_le(a, b) == Pitch_partial_cmp(a, b) \in {"Less", "Equal"}
Pitch_gt(a, b) == Pitch_partial_cmp(a, b) = "Greater"
Pitch_ge(a, b) == Pitch_partial_cmp(a, b) \in {"Greater", "Equal"}

\* impl Ord for Pitch: partial_cmp(..).unwrap(), which panics on None.
Pitch_cmp(a, b) ==
    LET left == f32_from_Pitch(a)
        right == f32_from_Pitch(b)
        ordering == f32_partial_cmp(left, right)
    IN  IF ordering = "None" THEN "panic" ELSE ordering

\* f32::MAX, the first min_distance of get_the_nearest_pitch.  It is about
\* 3.4e38; two pitches are at most (127 + 128) * 6 + 7.5 whole steps apart,
\* so any value above that distance compares as f32::MAX does.
f32_MAX == 2^30

\* Pitch::distance
distance(this, other) ==
    LET dist == f32_from_Pitch(other) - f32_from_Pitch(this)
    IN  IF dist < 0 THEN -dist ELSE dist

\* The loop of get_the_nearest_pitch with `<=` for `<`: among candidates at
\* the same distance the last one wins.
RECURSIVE nearest_scan_last(_, _, _, _)
nearest_scan_last(this, rest, min_distance, nearest_pitch) ==
    IF rest = <<>> THEN nearest_pitch
    ELSE LET pitch == Head(rest)
             d == distance(this, pitch)
         IN  IF d <= min_distance
             THEN nearest_scan_last(this, Tail(rest), d, pitch)
             ELSE nearest_scan_last(this, Tail(rest), min_distance, nearest_pitch)

\* The loop of Pitch::get_the_nearest_pitch over the pitches not yet seen.
RECURSIVE nearest_scan(_, _, _, _)
nearest_scan(this, rest, min_distance, nearest_pitch) ==
    IF rest = <<>> THEN nearest_pitch
    ELSE LET pitch == Head(rest)
             d == distance(this, pitch)
         IN  IF d < min_distance
             THEN nearest_scan(this, Tail(rest), d, pitch)
             ELSE nearest_scan(this, Tail(rest), min_distance, nearest_pitch)

\* get_the_nearest_pitch starting from a fixed pitch instead of self.clone().
get_the_nearest_pitch_from_c0(this, pitches) ==
    nearest_scan(this, pitches, f32_MAX, Pitch_new_without_accidental("C", 0))

\* Pitch::get_the_nearest_pitch
get_the_nearest_pitch(this, pitches) ==
    nearest_scan(this, pitches, f32_MAX, this)

----------------------------------------------------------------------------
(* theory/interval.rs *)

\* impl From<IntervalStep> for f32, in half units.
f32_from_IntervalStep(step) ==
    CASE step = "Half" -> 1
      [] step = "Whole" -> 2

\* Interval::new
Interval_new(a, b) ==
    IF Pitch_lt(a, b)
    THEN [lower |-> a, upper |-> b]
    ELSE [lower |-> b, upper |-> a]

\* The closure get_position of Interval::get_number.
get_position(pitch) ==
    CASE pitch.name = "C" -> 0
      [] pitch.name = "D" -> 1
      [] pitch.name = "E" -> 2
      [] pitch.name = "F" -> 3
      [] pitch.name = "G" -> 4
      [] pitch.name = "A" -> 5
      [] pitch.name = "B" -> 6

\* `(self.upper.octave - self.lower.octave).abs()` on i8: the subtraction and
\* abs (of i8::MIN) can each overflow.
octave_distance(iv) ==
    LET d == Signed(iv.upper.octave - iv.lower.octave, 8)
    IN  IF d.panic THEN Panicked
        ELSE Signed(IF d.val < 0 THEN -d.val ELSE d.val, 8)

\* get_number counting from zero: the `+ 1` of the ignore_octave branch left
\* out.
get_number_zero_based(iv, ignore_octave) ==
    LET lower_position == get_position(iv.lower)
        upper_position == get_position(iv.upper)
    IN  IF upper_position < lower_position
        THEN Done(upper_position + 7 - lower_position)
        ELSE Done(upper_position - lower_position)

\* Interval::get_number
get_number(iv, ignore_octave) ==
    LET lower_position == get_position(iv.lower)
        upper_position == get_position(iv.upper)
        dist == octave_distance(iv)
        octave_diff == IF dist.panic THEN Panicked
                       ELSE Unsigned(AsU8(dist.val) * 7, 8)
    IN  IF octave_diff.panic THEN Panicked
        ELSE IF ignore_octave
        THEN IF upper_position < lower_position
             THEN Done(upper_position + 7 - lower_position + 1)
             ELSE Done(upper_position - lower_position + 1)
        ELSE LET a == Unsigned(upper_position - lower_position, 8)
                 b == IF a.panic THEN Panicked ELSE Unsigned(a.val + 1, 8)
             IN  IF b.panic THEN Panicked
                 ELSE Unsigned(b.val + octave_diff.val, 8)

\* Interval::get_number_of_semitones
get_number_of_semitones(iv, ignore_octave) ==
    LET semitones ==
            F32AsU16(f32_from_Pitch(iv.upper) - f32_from_Pitch(iv.lower),
                     f32_from_IntervalStep("Half"))
    IN  IF ignore_octave
        THEN LET octave_diff == octave_distance(iv)
             IN  IF octave_diff.panic THEN Panicked
                 ELSE IF semitones > 12
                 THEN Unsigned(semitones - F32AsU16(octave_diff.val * 12, 1), 16)
                 ELSE Done(semitones)
        ELSE Done(semitones)

\* The arms of the match on `number` in Interval::get_quality, each a match
\* on `semitones`: Ok(quality) is the quality's name, Err(()) is "Err".
quality_of_unison(semitones) ==
    CASE semitones = 0 -> "Perfect"
      [] semitones = 1 -> "Augmented"
      [] OTHER -> "Err"

quality_of_second(semitones) ==
    CASE semitones = 0 -> "Diminished"
      [] semitones = 1 -> "Minor"
      [] semitones = 2 -> "Major"
      [] semitones = 3 -> "Augmented"
      [] OTHER -> "Err"

quality_of_third(semitones) ==
    CASE semitones = 2 -> "Diminished"
      [] semitones = 3 -> "Minor"
      [] semitones = 4 -> "Major"
      [] semitones = 5 -> "Augmented"
      [] OTHER -> "Err"

quality_of_fourth(semitones) ==
    CASE semitones = 4 -> "Diminished"
      [] semitones = 5 -> "Perfect"
      [] semitones = 6 -> "Augmented"
      [] OTHER -> "Err"

quality_of_fifth(semitones) ==
    CASE semitones = 6 -> "Diminished"
      [] semitones = 7 -> "Perfect"
      [] semitones = 8 -> "Augmented"
      [] OTHER -> "Err"

quality_of_sixth(semitones) ==
    CASE semitones = 7 -> "Diminished"
      [] semitones = 8 -> "Minor"
      [] semitones = 9 -> "Major"
      [] semitones = 10 -> "Augmented"
      [] OTHER -> "Err"

\* quality_of_seventh with the Minor and Major arms exchanged.
quality_of_seventh_swapped(semitones) ==
    CASE semitones = 9 -> "Diminished"
      [] semitones = 10 -> "Major"
      [] semitones = 11 -> "Minor"
      [] semitones = 12 -> "Augmented"
      [] OTHER -> "Err"

quality_of_seventh(semitones) ==
    CASE semitones = 9 -> "Diminished"
      [] semitones = 10 -> "Minor"
      [] semitones = 11 -> "Major"
      [] semitones = 12 -> "Augmented"
      [] OTHER -> "Err"

\* Interval::get_quality; a panic in get_number or get_number_of_semitones
\* unwinds through it ("panic").
get_quality(iv) ==
    LET number == get_number(iv, TRUE)
        semitones == get_number_of_semitones(iv, TRUE)
    IN  IF number.panic \/ semitones.panic THEN "panic"
        ELSE CASE number.val = 1 -> quality_of_unison(semitones.val)
               [] number.val = 2 -> quality_of_second(semitones.val)
               [] number.val = 3 -> quality_of_third(semitones.val)
               [] number.val = 4 -> quality_of_fourth(semitones.val)
               [] number.val = 5 -> quality_of_fifth(semitones.val)
               [] number.val = 6 -> quality_of_sixth(semitones.val)
               [] number.val = 7 -> quality_of_seventh(semitones.val)
               [] OTHER -> "Err"

\* What get_specific_interval did: it returned the tuple (number, quality,
\* compound), or it panicked.
SpecificOk(number, quality, compound) ==
    [outcome |-> "Ok", number |-> number, quality |-> quality,
     compound |-> compound]
SpecificPanic ==
    [outcome |-> "panic", number |-> 0, quality |-> "none", compound |-> FALSE]

\* get_specific_interval with `>= 12` for `> 12`.
get_specific_interval_from_octave(iv) ==
    LET number == get_number(iv, TRUE)
        quality == get_quality(iv)
        semitones == get_number_of_semitones(iv, FALSE)
    IN  IF number.panic \/ quality \in {"Err", "panic"} \/ semitones.panic
        THEN SpecificPanic
        ELSE SpecificOk(number.val, quality, semitones.val >= 12)

\* Interval::get_specific_interval; get_quality().unwrap() panics on Err(()),
\* and a panic in one of the three calls unwinds through it.
get_specific_interval(iv) ==
    LET number == get_number(iv, TRUE)
        quality == get_quality(iv)
        semitones == get_number_of_semitones(iv, FALSE)
    IN  IF number.panic \/ quality \in {"Err", "panic"} \/ semitones.panic
        THEN SpecificPanic
        ELSE SpecificOk(number.val, quality, semitones.val > 12)

----------------------------------------------------------------------------
(* Values of the variables of a specification that does not use them *)

None == <<>>
Some(x) == <<x>>

NoPitch == Pitch_new_without_accidental("C", 0)
NoResult == [op |-> "none", ignore |-> FALSE, num |-> Done(0),
             quality |-> "none", eq |-> FALSE, lt |-> FALSE, le |-> FALSE,
             gt |-> FALSE, ge |-> FALSE, cmp |-> "none",
             specific |-> [outcome |-> "none", number |-> 0,
                           quality |-> "none", compound |-> FALSE]]
NoFlac == [opens |-> FALSE, channels |-> 1, bits_per_sample |-> 16,
           sample_rate |-> 44100, samples |-> <<>>, samples_ok |-> FALSE]
NoCall == [made |-> FALSE, entries |-> {}, pitch |-> NoPitch, exact |-> FALSE,
           enumerated |-> FALSE, audio_file_names |-> <<>>,
           new_pitch |-> NoPitch, opened |-> None, flac |-> NoFlac,
           shift_steps |-> 0, handed |-> None, samples |-> None,
           returned |-> None, failure |-> "none", outcome |-> "none"]

IntervalIdle ==
    /\ p1 = NoPitch /\ p2 = NoPitch /\ interval = None /\ result = NoResult
TextIdle ==
    /\ text = <<>> /\ origin = None /\ parsed = None /\ shown = None
    /\ stage = "idle"
ResolverIdle ==
    /\ self = NoPitch /\ others = <<>> /\ nearest = None /\ shift = None
PlayerIdle ==
    /\ folder_exists = FALSE /\ dir = {} /\ call = NoCall
    /\ earlier = NoCall
ScaleIdle ==
    /\ given_steps = <<>> /\ scale = None
CoordinateIdle ==
    /\ f32_value = [kind |-> "finite", q |-> 0] /\ converted = None

----------------------------------------------------------------------------
(* theory/pitch.rs: the text form of a Pitch *)

\* Result<T, ()>
Ok(x) == [ok |-> TRUE, value |-> x]
Err(x) == [ok |-> FALSE, value |-> x]

\* The characters that matter to the pitch grammar.  "U+0663" stands for
\* ARABIC-INDIC DIGIT THREE, a decimal digit that is not ASCII: the regex
\* class \d is Unicode-aware and matches it, [0-9] and str::parse do not.
AsciiDigits == <<"0", "1", "2", "3", "4", "5", "6", "7", "8", "9">>
IsAsciiDigit(c) == \E i \in 1..Len(AsciiDigits) : AsciiDigits[i] = c
IsUnicodeDigit(c) == IsAsciiDigit(c) \/ c = "U+0663"
DigitValue(c) == (CHOOSE i \in 1..Len(AsciiDigits) : AsciiDigits[i] = c) - 1

\* impl Display for PitchName
PitchName_fmt(name) ==
    CASE name = "C" -> <<"C">>
      [] name = "D" -> <<"D">>
      [] name = "E" -> <<"E">>
      [] name = "F" -> <<"F">>
      [] name = "G" -> <<"G">>
      [] name = "A" -> <<"A">>
      [] name = "B" -> <<"B">>

\* impl TryFrom<String> for PitchName
PitchName_try_from(value) ==
    CASE value = <<"C">> -> Ok("C")
      [] value = <<"D">> -> Ok("D")
      [] value = <<"E">> -> Ok("E")
      [] value = <<"F">> -> Ok("F")
      [] value = <<"G">> -> Ok("G")
      [] value = <<"A">> -> Ok("A")
      [] value = <<"B">> -> Ok("B")
      [] OTHER -> Err("C")

\* Accidental_fmt writing a double sharp as "x".
Accidental_fmt_cross(accidental) ==
    CASE accidental = "Sharp" -> <<"#">>
      [] accidental = "Flat" -> <<"b">>
      [] accidental = "DoubleSharp" -> <<"x">>
      [] accidental = "DoubleFlat" -> <<"b", "b">>
      [] accidental = "None" -> <<>>

\* impl Display for Accidental
Accidental_fmt(accidental) ==
    CASE accidental = "Sharp" -> <<"#">>
      [] accidental = "Flat" -> <<"b">>
      [] accidental = "DoubleSharp" -> <<"#", "#">>
      [] accidental = "DoubleFlat" -> <<"b", "b">>
      [] accidental = "None" -> <<>>

\* impl TryFrom<String> for Accidental
Accidental_try_from(value) ==
    CASE value = <<"#">> -> Ok("Sharp")
      [] value = <<"b">> -> Ok("Flat")
      [] value = <<"#", "#">> -> Ok("DoubleSharp")
      [] value = <<"b", "b">> -> Ok("DoubleFlat")
      [] value = <<>> -> Ok("None")
      [] OTHER -> Err("None")

\* The decimal digits of a natural number, most significant first.
RECURSIVE nat_fmt(_)
nat_fmt(n) ==
    IF n < 10 THEN <<AsciiDigits[n + 1]>>
    ELSE nat_fmt(n \div 10) \o <<AsciiDigits[(n % 10) + 1]>>

\* impl Display for i8
i8_fmt(n) == IF n < 0 THEN <<"-">> \o nat_fmt(-n) ELSE nat_fmt(n)

\* impl Display for Pitch: write!(f, "{}{}{}", name, accidental, octave)
Pitch_fmt(pitch) ==
    PitchName_fmt(pitch.name) \o Accidental_fmt(pitch.accidental)
        \o i8_fmt(pitch.octave)

\* value[from..to] as a String; empty when from > to.
Slice(value, from, to) == [i \in 1..(to - from + 1) |-> value[i + from - 1]]

\* The value of a string of ASCII digits.
RECURSIVE digits_value(_)
digits_value(digits) ==
    IF digits = <<>> THEN 0
    ELSE 10 * digits_value(Slice(digits, 1, Len(digits) - 1))
            + DigitValue(digits[Len(digits)])

\* str::parse::<i8>: an optional sign, then one ASCII digit or more; an
\* empty string, any other character and a value outside i8 are errors.
i8_from_str(src) ==
    LET signed == src # <<>> /\ src[1] \in {"+", "-"}
        digits == IF signed THEN Tail(src) ELSE src
        value == IF signed /\ src[1] = "-" THEN -digits_value(digits)
                 ELSE digits_value(digits)
    IN  IF digits = <<>> \/ \E i \in 1..Len(digits) : ~IsAsciiDigit(digits[i])
        THEN Err(0)
        ELSE IF value < -(2^7) \/ value > 2^7 - 1 THEN Err(0)
        ELSE Ok(value)

\* regex_captures with the octave group written [0-9] alone: no two-digit
\* octave matches.
regex_captures_one_digit(value) ==
    { c \in [acc_len : 0..2, octave_len : 1..1] :
        /\ Len(value) = 1 + c.acc_len + c.octave_len
        /\ value[1] \in {"A", "B", "C", "D", "E", "F", "G"}
        /\ LET acc == Slice(value, 2, 1 + c.acc_len)
               octave == Slice(value, 2 + c.acc_len, Len(value))
           IN  /\ \/ c.acc_len = 0
                  \/ \A i \in 1..c.acc_len : acc[i] = "#"
                  \/ \A i \in 1..c.acc_len : acc[i] = "b"
               /\ IsAsciiDigit(octave[1]) }

\* regex_captures with the octave group written [0-9]{1,2}: a leading zero
\* matches.
regex_captures_leading_zero(value) ==
    { c \in [acc_len : 0..2, octave_len : 1..2] :
        /\ Len(value) = 1 + c.acc_len + c.octave_len
        /\ value[1] \in {"A", "B", "C", "D", "E", "F", "G"}
        /\ LET acc == Slice(value, 2, 1 + c.acc_len)
               octave == Slice(value, 2 + c.acc_len, Len(value))
           IN  /\ \/ c.acc_len = 0
                  \/ \A i \in 1..c.acc_len : acc[i] = "#"
                  \/ \A i \in 1..c.acc_len : acc[i] = "b"
               /\ \A i \in 1..c.octave_len : IsAsciiDigit(octave[i]) }

\* The ways the regex ^([A-G])(#{1,2}|b{1,2})?([0-9]|[1-9]\d)$ matches the
\* whole of `value`: the lengths of capture groups 2 and 3 of each match
\* (group 1 is the first character; group 2 takes no part in a match without
\* accidental marker, which is length 0 here).
regex_captures(value) ==
    { c \in [acc_len : 0..2, octave_len : 1..2] :
        /\ Len(value) = 1 + c.acc_len + c.octave_len
        /\ value[1] \in {"A", "B", "C", "D", "E", "F", "G"}
        /\ LET acc == Slice(value, 2, 1 + c.acc_len)
               octave == Slice(value, 2 + c.acc_len, Len(value))
           IN  /\ \/ c.acc_len = 0
                  \/ \A i \in 1..c.acc_len : acc[i] = "#"
                  \/ \A i \in 1..c.acc_len : acc[i] = "b"
               /\ \/ c.octave_len = 1 /\ IsAsciiDigit(octave[1])
                  \/ /\ c.octave_len = 2
                     /\ IsAsciiDigit(octave[1]) /\ octave[1] # "0"
                     /\ IsUnicodeDigit(octave[2]) }

\* impl TryFrom<String> for Pitch
Pitch_try_from_String(value) ==
    IF regex_captures(value) # {}
    THEN LET captures == CHOOSE c \in regex_captures(value) : TRUE
             name == Slice(value, 1, 1)
             accidental == Slice(value, 2, 1 + captures.acc_len)
             octave == Slice(value, 2 + captures.acc_len, Len(value))
             n == PitchName_try_from(name)
             a == Accidental_try_from(accidental)
             o == i8_from_str(octave)
         IN  IF ~n.ok THEN Err(NoPitch)
             ELSE IF ~a.ok THEN Err(NoPitch)
             ELSE IF ~o.ok THEN Err(NoPitch)
             ELSE Ok([name |-> n.value, accidental |-> a.value,
                      octave |-> o.value])
    ELSE Err(NoPitch)

----------------------------------------------------------------------------
(* SpecText: a String is parsed and the Pitch formatted back, or a Pitch   *)
(* is formatted and the String parsed back.                                *)

\* First characters and later characters of the input texts.
HeadChars == {"A", "B", "C", "D", "E", "F", "G", "H", "c", "#", "1"}
TailChars == {"#", "b", "0", "1", "9", "C", "-", "U+0663"}

RECURSIVE SeqsUpTo(_, _)
SeqsUpTo(S, n) ==
    IF n = 0 THEN {<<>>}
    ELSE LET shorter == SeqsUpTo(S, n - 1)
         IN  shorter \cup {<<c>> \o t : c \in S, t \in {u \in shorter : Len(u) = n - 1}}

Texts == {<<>>} \cup {<<c>> \o t : c \in HeadChars, t \in SeqsUpTo(TailChars, MaxTail)}

\* Every Pitch value: any letter, any accidental, any i8 octave.
AllPitches ==
    {Pitch_new(n, o, a) : n \in PitchName, o \in (-(2^7))..(2^7 - 1),
                          a \in Accidental}

InitText ==
    /\ overflow_checks = FALSE
    /\ \/ text \in Texts /\ origin = None /\ stage = "text"
       \/ text = <<>> /\ origin \in {Some(p) : p \in AllPitches}
          /\ stage = "pitch"
    /\ parsed = None
    /\ shown = None
    /\ IntervalIdle /\ ResolverIdle /\ PlayerIdle
    /\ ScaleIdle /\ CoordinateIdle

\* Pitch::try_from(text)
ParseText ==
    /\ stage = "text"
    /\ parsed' = Some(Pitch_try_from_String(text))
    /\ stage' = "parsed"
    /\ UNCHANGED <<scaleVars, coordinateVars,
                   overflow_checks, text, origin, shown, intervalVars,
                   resolverVars, playerVars>>

\* format!("{}", pitch) of the pitch just parsed
FormatParsed ==
    /\ stage = "parsed"
    /\ parsed[1].ok
    /\ shown' = Some(Pitch_fmt(parsed[1].value))
    /\ stage' = "parsed-formatted"
    /\ UNCHANGED <<scaleVars, coordinateVars,
                   overflow_checks, text, origin, parsed, intervalVars,
                   resolverVars, playerVars>>

\* format!("{}", origin)
FormatPitch ==
    /\ stage = "pitch"
    /\ shown' = Some(Pitch_fmt(origin[1]))
    /\ stage' = "formatted"
    /\ UNCHANGED <<scaleVars, coordinateVars,
                   overflow_checks, text, origin, parsed, intervalVars,
                   resolverVars, playerVars>>

\* Pitch::try_from of the text just formatted
ParseFormatted ==
    /\ stage = "formatted"
    /\ parsed' = Some(Pitch_try_from_String(shown[1]))
    /\ stage' = "formatted-parsed"
    /\ UNCHANGED <<scaleVars, coordinateVars,
                   overflow_checks, text, origin, shown, intervalVars,
                   resolverVars, playerVars>>

NextText ==
    \/ ParseText
    \/ FormatParsed
    \/ FormatPitch
    \/ ParseFormatted

SpecText == InitText /\ [][NextText]_vars

----------------------------------------------------------------------------
(* Properties of SpecText *)

\* C7: for every pitch with any letter, any accidental and octave in 0..99,
\* parsing the text that formatting it produced succeeds and yields a pitch
\* equal to it, with the same letter, accidental and octave.
C7_FormatThenParse ==
    (stage = "formatted-parsed" /\ origin[1].octave \in 0..99) =>
        /\ parsed[1].ok
        /\ Pitch_eq(parsed[1].value, origin[1])
        /\ parsed[1].value.name = origin[1].name
        /\ parsed[1].value.accidental = origin[1].accidental
        /\ parsed[1].value.octave = origin[1].octave

\* C7 witness: Bbb99 has been formatted and the text parsed back.
C7_Witness ==
    /\ stage = "formatted-parsed"
    /\ origin = Some(Pitch_new("B", 99, "DoubleFlat"))
    /\ shown = Some(<<"B", "b", "b", "9", "9">>)
    /\ parsed[1].ok

\* C21: for every text that Pitch parsing accepts, formatting the parsed
\* pitch gives the text back character for character (so the file stem
\* rebuilt from a candidate parsed out of an asset file name is that file's
\* stem).
C21_ParseThenFormat ==
    stage = "parsed-formatted" => shown = Some(text)

\* C21 witness: "G##10" has been parsed and the pitch formatted.
C21_Witness ==
    /\ stage = "parsed-formatted"
    /\ text = <<"G", "#", "#", "1", "0">>
    /\ parsed = Some(Ok(Pitch_new("G", 10, "DoubleSharp")))
    /\ shown # None

\* The five accidental markers and the accidental each one writes.
Markers == {<<>>, <<"#">>, <<"b">>, <<"#", "#">>, <<"b", "b">>}
MarkerAccidental(m) ==
    IF m = <<>> THEN "None" ELSE IF m = <<"#">> THEN "Sharp"
    ELSE IF m = <<"b">> THEN "Flat" ELSE IF m = <<"#", "#">> THEN "DoubleSharp"
    ELSE "DoubleFlat"

\* The number a string of one or two decimal digits writes.
OctaveNumber(d) ==
    IF Len(d) = 1 THEN DigitValue(d[1])
    ELSE 10 * DigitValue(d[1]) + DigitValue(d[2])

\* The pitches a text writes in the grammar letter, marker, one or two
\* decimal digits; with leading_zero FALSE a two-digit octave must not start
\* with 0.
Readings(t, leading_zero) ==
    { r \in [marker : Markers, digits : 1..2] :
        /\ Len(t) = 1 + Len(r.marker) + r.digits
        /\ t[1] \in PitchName
        /\ Slice(t, 2, 1 + Len(r.marker)) = r.marker
        /\ \A i \in (2 + Len(r.marker))..Len(t) : IsAsciiDigit(t[i])
        /\ (r.digits = 2 /\ ~leading_zero) => t[2 + Len(r.marker)] # "0" }

ReadingPitch(t, r) ==
    [name |-> t[1], accidental |-> MarkerAccidental(r.marker),
     octave |-> OctaveNumber(Slice(t, 2 + Len(r.marker), Len(t)))]

\* C8 as stated: parsing accepts exactly the texts letter, marker, any one or
\* two decimal digits ("00" to "09" included), each parsing to the pitch it
\* writes; every other text is a parse error.
C8_AcceptsOneOrTwoDigits ==
    stage = "parsed" =>
        /\ parsed[1].ok <=> Readings(text, TRUE) # {}
        /\ parsed[1].ok =>
              \A r \in Readings(text, TRUE) :
                  parsed[1].value = ReadingPitch(text, r)

\* C8 as amended: parsing accepts exactly the texts letter, marker, then one
\* decimal digit or two decimal digits of which the first is not 0 ("0" to
\* "9" and "10" to "99"; "00" to "09" are rejected), each parsing to the
\* pitch it writes; every other text is a parse error.
C8_AcceptsCanonicalOctave ==
    stage = "parsed" =>
        /\ parsed[1].ok <=> Readings(text, FALSE) # {}
        /\ parsed[1].ok =>
              \A r \in Readings(text, FALSE) :
                  parsed[1].value = ReadingPitch(text, r)

\* C8 witness: "Cbb09", which has a leading zero, has been parsed and
\* rejected.
C8_Witness ==
    /\ stage = "parsed"
    /\ text = <<"C", "b", "b", "0", "9">>
    /\ ~parsed[1].ok

----------------------------------------------------------------------------
(* theory/scale.rs: Scale::try_new.  A step is a u8; the f32 sum of the    *)
(* steps is a whole number, stored as it is (f32 addition of whole numbers *)
(* is exact below 2^24, far above what MaxSteps steps of at most 255 add   *)
(* up to).                                                                 *)

\* steps.iter().fold(0.0, |acc, step| acc + f32::from(*step)), from `acc`.
fold_sum(acc, seq) ==
    LET go[i \in 0..Len(seq)] == IF i = 0 THEN acc ELSE go[i - 1] + seq[i]
    IN  go[Len(seq)]

\* Scale::try_new rejecting only a sum below 12.
Scale_try_new_at_least(input) ==
    LET sum == fold_sum(0, input)
    IN  IF sum < 12 THEN Err(<<>>) ELSE Ok([steps |-> input])

\* Scale::try_new
Scale_try_new(input) ==
    LET sum == fold_sum(0, input)
    IN  IF sum # 12 THEN Err(<<>>) ELSE Ok([steps |-> input])

\* Step sequences have at most MaxSteps steps.
MaxSteps == 4

\* The steps a sequence is made of: none, the steps of the scales in use,
\* a whole octave, and the largest u8.
StepValues == {0, 1, 2, 3, 12, 2^8 - 1}

\* The major scale of tests::test_try_new.
MajorScale == <<2, 2, 1, 2, 2, 2, 1>>

InitScale ==
    /\ overflow_checks = FALSE
    /\ given_steps \in SeqsUpTo(StepValues, MaxSteps) \cup {MajorScale}
    /\ scale = None
    /\ IntervalIdle /\ TextIdle /\ ResolverIdle /\ PlayerIdle
    /\ CoordinateIdle

\* let scale = Scale::try_new(steps);
TryNewScale ==
    /\ scale = None
    /\ scale' = Some(Scale_try_new(given_steps))
    /\ UNCHANGED <<given_steps, coordinateVars, overflow_checks, intervalVars,
                   textVars, resolverVars, playerVars>>

NextScale == TryNewScale

SpecScale == InitScale /\ [][NextScale]_vars

\* The arithmetic sum of the first n steps.
RECURSIVE SumOfSteps(_, _)
SumOfSteps(seq, n) == IF n = 0 THEN 0 ELSE SumOfSteps(seq, n - 1) + seq[n]

\* C12: Scale::try_new succeeds if and only if the steps add up to exactly
\* 12, whatever their number (the empty sequence fails, zeros do not
\* matter), and on success the scale stores the input sequence unchanged.
C12_ScaleSumsToTwelve ==
    scale # None =>
        /\ scale[1].ok <=> (SumOfSteps(given_steps, Len(given_steps)) = 12)
        /\ scale[1].ok => scale[1].value.steps = given_steps

\* C12 witness: the major scale 2, 2, 1, 2, 2, 2, 1 has been accepted and is
\* stored as given.
C12_Witness ==
    /\ given_steps = MajorScale
    /\ scale = Some(Ok([steps |-> MajorScale]))

----------------------------------------------------------------------------
(* theory/pitch.rs: impl TryFrom<f32> for Pitch, and utils::float_mod.     *)
(* The f32 argument is finite, NaN or infinite.  A finite one is stored in *)
(* quarter units (0.25 is 1, 0.5 is 2, 6.0 is 24), so that values that are *)
(* not multiples of 0.5 are among the inputs.  For the magnitudes used     *)
(* (below 2^10) the f32 quotient value / 6.0 is off the exact quotient by  *)
(* less than 2^-13, and the exact quotient is an integer or at least 1/24  *)
(* away from one, so its floor is the floor of the exact quotient; the     *)
(* product and the difference are exact.                                   *)

Finite(q) == [kind |-> "finite", q |-> q]
NaN == [kind |-> "NaN", q |-> 0]
Infinity == [kind |-> "inf", q |-> 1]
NegInfinity == [kind |-> "inf", q |-> -1]

\* 6.0
Six == Finite(24)

\* float_mod with the quotient truncated toward zero instead of floored.
float_mod_truncated(a, b) ==
    IF a.kind # "finite" THEN NaN
    ELSE LET quotient == IF a.q >= 0 THEN a.q \div b.q ELSE -((-a.q) \div b.q)
         IN  Finite(a.q - b.q * quotient)

\* utils::float_mod(a, b) = a - b * (a / b).floor(), for a finite b > 0:
\* NaN gives NaN, and an infinite a gives inf - inf = NaN.
float_mod(a, b) ==
    IF a.kind # "finite" THEN NaN
    ELSE Finite(a.q - b.q * (a.q \div b.q))

\* `(value / 6.0).floor() as i8` for a finite value: the cast saturates.
octave_of(v) ==
    LET floored == v.q \div Six.q
    IN  IF floored < -(2^7) THEN -(2^7)
        ELSE IF floored > 2^7 - 1 THEN 2^7 - 1
        ELSE floored

\* impl TryFrom<f32> for Pitch
Pitch_try_from_f32(v) ==
    LET m == float_mod(v, Six)
        spelled(pitch_name, accidental) ==
            Ok(Pitch_new(pitch_name, octave_of(v), accidental))
    IN  IF m.kind # "finite" THEN Err(<<>>)
        ELSE CASE m.q = 0 -> spelled("C", "None")
               [] m.q = 2 -> spelled("C", "Sharp")
               [] m.q = 4 -> spelled("D", "None")
               [] m.q = 6 -> spelled("D", "Sharp")
               [] m.q = 8 -> spelled("E", "None")
               [] m.q = 10 -> spelled("F", "None")
               [] m.q = 12 -> spelled("F", "Sharp")
               [] m.q = 14 -> spelled("G", "None")
               [] m.q = 16 -> spelled("G", "Sharp")
               [] m.q = 18 -> spelled("A", "None")
               [] m.q = 20 -> spelled("A", "Sharp")
               [] m.q = 22 -> spelled("B", "None")
               [] OTHER -> Err(<<>>)

\* The f32 inputs: NaN, the infinities, and the multiples of 0.25 from one
\* octave below the lowest i8 octave to one octave above the highest.
F32Inputs ==
    {NaN, Infinity, NegInfinity}
        \cup {Finite(q) : q \in ((-(2^7) - 1) * Six.q)..((2^7 + 1) * Six.q - 1)}

InitCoordinate ==
    /\ overflow_checks = FALSE
    /\ f32_value \in F32Inputs
    /\ converted = None
    /\ IntervalIdle /\ TextIdle /\ ResolverIdle /\ PlayerIdle
    /\ ScaleIdle

\* let converted = Pitch::try_from(value);
TryFromF32 ==
    /\ converted = None
    /\ converted' = Some(Pitch_try_from_f32(f32_value))
    /\ UNCHANGED <<f32_value, scaleVars, overflow_checks, intervalVars,
                   textVars, resolverVars, playerVars>>

NextCoordinate == TryFromF32

SpecCoordinate == InitCoordinate /\ [][NextCoordinate]_vars

\* c is a multiple of 0.5.
IsMultipleOfHalf(c) == c.kind = "finite" /\ c.q % 2 = 0

\* floor(c / 6) for a finite c.
OctaveFloor(c) == c.q \div 24

\* The octaves of the octave type, i8.
OctaveType == (-128)..127

----------------------------------------------------------------------------
(* SpecInterval: Interval::new on two pitches, then the operations on the  *)
(* interval, and the comparisons of the two pitches.                       *)

\* Octaves far from 0..MaxOctave: a negative one, and the largest the text
\* form can write.
FarOctaves == {-1, 99}

\* The pitches the interval operations are applied to.
IntervalPitches ==
    {Pitch_new(n, o, a) : n \in PitchName,
                          o \in (0..MaxOctave) \cup FarOctaves,
                          a \in Accidental}

InitInterval ==
    /\ overflow_checks \in BOOLEAN
    /\ p1 \in IntervalPitches
    /\ p2 \in IntervalPitches
    /\ interval = None
    /\ result = NoResult
    /\ TextIdle /\ ResolverIdle /\ PlayerIdle
    /\ ScaleIdle /\ CoordinateIdle

\* let interval = Interval::new(p1, p2);
NewInterval ==
    /\ interval = None
    /\ interval' = Some(Interval_new(p1, p2))
    /\ UNCHANGED <<scaleVars, coordinateVars,
                   overflow_checks, p1, p2, result, textVars, resolverVars,
                   playerVars>>

\* interval.get_number(ignore_octave)
GetNumber ==
    /\ interval # None
    /\ \E ignore_octave \in BOOLEAN :
          result' = [NoResult EXCEPT !.op = "get_number",
                                     !.ignore = ignore_octave,
                                     !.num = get_number(interval[1], ignore_octave)]
    /\ UNCHANGED <<scaleVars, coordinateVars,
                   overflow_checks, p1, p2, interval, textVars, resolverVars,
                   playerVars>>

\* interval.get_number_of_semitones(ignore_octave)
GetNumberOfSemitones ==
    /\ interval # None
    /\ \E ignore_octave \in BOOLEAN :
          result' = [NoResult EXCEPT !.op = "get_number_of_semitones",
                                     !.ignore = ignore_octave,
                                     !.num = get_number_of_semitones(interval[1], ignore_octave)]
    /\ UNCHANGED <<scaleVars, coordinateVars,
                   overflow_checks, p1, p2, interval, textVars, resolverVars,
                   playerVars>>

\* interval.get_quality()
GetQuality ==
    /\ interval # None
    /\ result' = [NoResult EXCEPT !.op = "get_quality",
                                  !.quality = get_quality(interval[1])]
    /\ UNCHANGED <<scaleVars, coordinateVars,
                   overflow_checks, p1, p2, interval, textVars, resolverVars,
                   playerVars>>

\* interval.get_specific_interval()
GetSpecificInterval ==
    /\ interval # None
    /\ result' = [NoResult EXCEPT !.op = "get_specific_interval",
                                  !.specific = get_specific_interval(interval[1])]
    /\ UNCHANGED <<scaleVars, coordinateVars,
                   overflow_checks, p1, p2, interval, textVars, resolverVars,
                   playerVars>>

\* p1 == p2, p1 < p2, p1 <= p2, p1 > p2, p1 >= p2, p1.cmp(&p2)
Compare ==
    /\ result' = [NoResult EXCEPT !.op = "compare",
                                  !.eq = Pitch_eq(p1, p2),
                                  !.lt = Pitch_lt(p1, p2),
                                  !.le = Pitch_le(p1, p2),
                                  !.gt = Pitch_gt(p1, p2),
                                  !.ge = Pitch_ge(p1, p2),
                                  !.cmp = Pitch_cmp(p1, p2)]
    /\ UNCHANGED <<scaleVars, coordinateVars,
                   overflow_checks, p1, p2, interval, textVars, resolverVars,
                   playerVars>>

NextInterval ==
    \/ NewInterval
    \/ GetNumber
    \/ GetNumberOfSemitones
    \/ GetQuality
    \/ GetSpecificInterval
    \/ Compare

SpecInterval == InitInterval /\ [][NextInterval]_vars

----------------------------------------------------------------------------
(* Properties of SpecInterval *)

\* The interval Interval::new builds from the same two pitches in the other
\* argument order.
Mirrored == Interval_new(p2, p1)

\* C1: Interval::new(p1, p2) and Interval::new(p2, p1) give the same
\* get_number and the same get_number_of_semitones (for both values of
\* ignore_octave) and the same get_quality, for every two pitches, pairs of
\* equal coordinate and different spelling included.
C1_IntervalSymmetry ==
    interval # None =>
        /\ result.op = "get_number" =>
              result.num = get_number(Mirrored, result.ignore)
        /\ result.op = "get_number_of_semitones" =>
              result.num = get_number_of_semitones(Mirrored, result.ignore)
        /\ result.op = "get_quality" =>
              result.quality = get_quality(Mirrored)

\* C2 as stated: two pitches of equal coordinate, spelled identically or
\* enharmonically, give in either argument order an interval with
\* get_number(true) = 1 and get_number_of_semitones = 0.
C2_EqualCoordinateIsUnison ==
    (interval # None /\ Pitch_eq(p1, p2)) =>
        /\ (result.op = "get_number" /\ result.ignore) => result.num = Done(1)
        /\ result.op = "get_number_of_semitones" => result.num = Done(0)

\* C2 as amended: two pitches of equal coordinate give in either argument
\* order get_number_of_semitones = 0 (for both values of ignore_octave), and
\* get_number(true) = 1 exactly when the two are spelled identically; an
\* enharmonic pair gives a number other than 1.
C2_EqualCoordinate ==
    (interval # None /\ Pitch_eq(p1, p2)) =>
        /\ (result.op = "get_number" /\ result.ignore) =>
              /\ ~result.num.panic
              /\ (result.num.val = 1) <=> (p1 = p2)
        /\ result.op = "get_number_of_semitones" => result.num = Done(0)

\* C2 witness: get_number(true) has run on the interval of an enharmonic
\* pair (equal coordinate, different letters).
C2_Witness ==
    /\ interval # None
    /\ Pitch_eq(p1, p2)
    /\ p1.name # p2.name
    /\ result.op = "get_number"
    /\ result.ignore

\* The coordinate of a pitch as the data model defines it, in half units:
\* base(name) + offset(accidental) + 6.0 x octave.
BaseOffset == [n \in PitchName |->
    IF n = "C" THEN 0 ELSE IF n = "D" THEN 2 ELSE IF n = "E" THEN 4
    ELSE IF n = "F" THEN 5 ELSE IF n = "G" THEN 7 ELSE IF n = "A" THEN 9
    ELSE 11]
AccidentalOffset == [a \in Accidental |->
    IF a = "Sharp" THEN 1 ELSE IF a = "Flat" THEN -1
    ELSE IF a = "DoubleSharp" THEN 2 ELSE IF a = "DoubleFlat" THEN -2
    ELSE 0]
Coordinate(p) == BaseOffset[p.name] + AccidentalOffset[p.accidental] + 12 * p.octave

\* C6: two pitches compare equal iff their coordinates are equal; <, <=, >,
\* >= and cmp agree with the numeric order of the coordinates; cmp does not
\* panic.
C6_ComparisonByCoordinate ==
    result.op = "compare" =>
        /\ result.eq <=> (Coordinate(p1) = Coordinate(p2))
        /\ result.lt <=> (Coordinate(p1) < Coordinate(p2))
        /\ result.le <=> (Coordinate(p1) <= Coordinate(p2))
        /\ result.gt <=> (Coordinate(p1) > Coordinate(p2))
        /\ result.ge <=> (Coordinate(p1) >= Coordinate(p2))
        /\ result.cmp # "panic"
        /\ (result.cmp = "Less") <=> (Coordinate(p1) < Coordinate(p2))
        /\ (result.cmp = "Equal") <=> (Coordinate(p1) = Coordinate(p2))
        /\ (result.cmp = "Greater") <=> (Coordinate(p1) > Coordinate(p2))

\* C6 witness: C#0 and Db0 have been compared, and found equal.
C6_Witness ==
    /\ result.op = "compare"
    /\ p1 = Pitch_new("C", 0, "Sharp")
    /\ p2 = Pitch_new("D", 0, "Flat")
    /\ result.eq
    /\ result.cmp = "Equal"

\* The quality table of the interval calculator: <<number, semitones, quality>>.
QualityTable ==
    { <<1, 0, "Perfect">>, <<1, 1, "Augmented">>,
      <<2, 0, "Diminished">>, <<2, 1, "Minor">>, <<2, 2, "Major">>,
      <<2, 3, "Augmented">>,
      <<3, 2, "Diminished">>, <<3, 3, "Minor">>, <<3, 4, "Major">>,
      <<3, 5, "Augmented">>,
      <<4, 4, "Diminished">>, <<4, 5, "Perfect">>, <<4, 6, "Augmented">>,
      <<5, 6, "Diminished">>, <<5, 7, "Perfect">>, <<5, 8, "Augmented">>,
      <<6, 7, "Diminished">>, <<6, 8, "Minor">>, <<6, 9, "Major">>,
      <<6, 10, "Augmented">>,
      <<7, 9, "Diminished">>, <<7, 10, "Minor">>, <<7, 11, "Major">>,
      <<7, 12, "Augmented">> }

TableEntry(number, semitones) ==
    IF \E e \in QualityTable : e[1] = number /\ e[2] = semitones
    THEN (CHOOSE e \in QualityTable : e[1] = number /\ e[2] = semitones)[3]
    ELSE "Err"

\* A pair of pitches Init draws on which get_quality produces table entry e.
Produces(a, b, e) ==
    LET iv == Interval_new(a, b)
        number == get_number(iv, TRUE)
        semitones == get_number_of_semitones(iv, TRUE)
    IN  /\ ~number.panic /\ number.val = e[1]
        /\ ~semitones.panic /\ semitones.val = e[2]
        /\ get_quality(iv) = e[3]

\* C9: whenever get_number(true) and get_number_of_semitones(true) return,
\* get_quality returns the table entry for that pair of results, and Err for
\* a pair not in the table; and every table entry is produced by some pair
\* of pitches (the pairs are those Init draws; the search for them is made
\* once per build profile, in the states where C0-C0 has been classified).
C9_QualityTable ==
    result.op = "get_quality" =>
        LET number == get_number(interval[1], TRUE)
            semitones == get_number_of_semitones(interval[1], TRUE)
        IN  /\ (~number.panic /\ ~semitones.panic) =>
                  result.quality = TableEntry(number.val, semitones.val)
            /\ (p1 = NoPitch /\ p2 = NoPitch) =>
                  \A e \in QualityTable :
                      \E a \in IntervalPitches, b \in IntervalPitches :
                          Produces(a, b, e)

\* C9 witness: get_quality has classified an interval of number 2 and 0
\* semitones (an enharmonic pair) as Diminished.
C9_Witness ==
    /\ result.op = "get_quality"
    /\ result.quality = "Diminished"
    /\ get_number(interval[1], TRUE) = Done(2)
    /\ get_number_of_semitones(interval[1], TRUE) = Done(0)

\* The five interval qualities.
Qualities == {"Perfect", "Major", "Minor", "Augmented", "Diminished"}

\* C11: for an interval whose get_quality is a quality, get_specific_interval
\* returns (get_number(true), that quality, b) with b true exactly when
\* get_number_of_semitones(false) > 12; when get_quality is Err (Undefined)
\* it fails, and it fails only when get_quality gives no quality.
C11_SpecificInterval ==
    result.op = "get_specific_interval" =>
        LET quality == get_quality(interval[1])
            number == get_number(interval[1], TRUE)
            semitones == get_number_of_semitones(interval[1], FALSE)
        IN  /\ quality \in Qualities =>
                  /\ result.specific.outcome = "Ok"
                  /\ Done(result.specific.number) = number
                  /\ result.specific.quality = quality
                  /\ result.specific.compound <=> (semitones.val > 12)
            /\ quality = "Err" => result.specific.outcome = "panic"
            /\ result.specific.outcome = "panic" => quality \notin Qualities

\* C11 witness: get_specific_interval has returned (3, Major, true) for
\* C0-E1.
C11_Witness ==
    /\ result.op = "get_specific_interval"
    /\ interval = Some(Interval_new(Pitch_new_without_accidental("C", 0),
                                    Pitch_new_without_accidental("E", 1)))
    /\ result.specific = SpecificOk(3, "Major", TRUE)

\* The letter index of a pitch, C = 0 .. B = 6.
LetterIndex == [n \in PitchName |->
    IF n = "C" THEN 0 ELSE IF n = "D" THEN 1 ELSE IF n = "E" THEN 2
    ELSE IF n = "F" THEN 3 ELSE IF n = "G" THEN 4 ELSE IF n = "A" THEN 5
    ELSE 6]

\* The octaves the text form of a pitch can write.
WrittenOctaves == 0..99

\* The absolute difference of the octaves of an interval's pitches.
OctaveGap(iv) ==
    IF iv.upper.octave >= iv.lower.octave
    THEN iv.upper.octave - iv.lower.octave
    ELSE iv.lower.octave - iv.upper.octave

\* C13: for every interval between pitches with octaves in 0..99,
\* get_number(false) returns upper_index - lower_index + 7 x |octave(upper)
\* - octave(lower)| + 1, also when the upper letter index is the smaller
\* one (B0-C1 gives 2), and it does so in both build profiles: no step of
\* its u8 arithmetic overflows (an overflowing step panics when overflow
\* checks are on and wraps when they are off).
C13_NumberWithoutOverflow ==
    (/\ result.op = "get_number"
     /\ ~result.ignore
     /\ interval[1].lower.octave \in WrittenOctaves
     /\ interval[1].upper.octave \in WrittenOctaves) =>
        result.num = Done(LetterIndex[interval[1].upper.name]
                            - LetterIndex[interval[1].lower.name]
                            + 7 * OctaveGap(interval[1]) + 1)

\* An interval's upper pitch raised by k octaves.
RaisedBy(iv, k) ==
    Interval_new(iv.lower,
                 Pitch_new(iv.upper.name, iv.upper.octave + k, iv.upper.accidental))

\* The upper pitch is raised by at most MaxRaise octaves.
MaxRaise == 2

\* C17: when get_quality gives a quality for the interval of p <= q, the
\* interval of p and q raised by k >= 1 whole octaves has the same
\* get_number(true), the same get_number_of_semitones(true) and the same
\* get_quality.
C17_QualityIgnoresOctaves ==
    (result.op = "get_quality" /\ result.quality \in Qualities) =>
        \A k \in 1..MaxRaise :
            LET raised == RaisedBy(interval[1], k)
            IN  /\ get_number(raised, TRUE) = get_number(interval[1], TRUE)
                /\ get_number_of_semitones(raised, TRUE)
                      = get_number_of_semitones(interval[1], TRUE)
                /\ get_quality(raised) = result.quality

\* C19: for every interval between pitches with octaves in 0..99,
\* get_number_of_semitones(true) completes in both build profiles (no u16
\* underflow) and returns a value in 0..12 congruent modulo 12 to
\* get_number_of_semitones(false).
C19_SemitonesWithinOctave ==
    (/\ result.op = "get_number_of_semitones"
     /\ result.ignore
     /\ interval[1].lower.octave \in WrittenOctaves
     /\ interval[1].upper.octave \in WrittenOctaves) =>
        /\ ~result.num.panic
        /\ result.num.val \in 0..12
        /\ result.num.val % 12
              = get_number_of_semitones(interval[1], FALSE).val % 12

----------------------------------------------------------------------------
(* instruments/player.rs: generate_pitch_samples *)

\* An entry of the sample folder: the stem and the extension of its name,
\* and whether it is a regular file or a directory.
Entry(stem, ext, kind) == [stem |-> stem, ext |-> ext, kind |-> kind]

\* sample_folder_path.join(format!("{}", pitch)).with_extension("flac"): the
\* stem of the path; a pitch's text holds no '.', so the extension is added.
pitch_file_stem(pitch) == Pitch_fmt(pitch)

\* path_exists finding no path.
path_exists_never(entries, stem) == FALSE

\* Path::exists for the .flac path with this stem.
path_exists(entries, stem) ==
    \E e \in entries : e.stem = stem /\ e.ext = "flac"

\* The filter of the read_dir chain: path.is_file() and extension "flac".
is_flac_file(e) == e.kind = "file" /\ e.ext = "flac"

\* audio_file_names keeping the candidate names of the call before.
audio_file_names_kept(listing) ==
    IF call.made /\ call.audio_file_names # <<>>
    THEN call.audio_file_names
    ELSE LET kept == SelectSeq(listing, is_flac_file)
         IN  [i \in 1..Len(kept) |-> kept[i].stem]

\* The read_dir chain: the file stems of the .flac files, in the order
\* read_dir yields the entries.
audio_file_names(listing) ==
    LET kept == SelectSeq(listing, is_flac_file)
    IN  [i \in 1..Len(kept) |-> kept[i].stem]

\* The value of `shift_steps` after the resolution branch: the semitones
\* between the two pitches as f32, negated when new_pitch < pitch.
shift_steps_of(pitch, new_pitch) ==
    LET steps == get_number_of_semitones(Interval_new(pitch, new_pitch), FALSE).val
    IN  IF Pitch_lt(new_pitch, pitch) THEN -steps ELSE steps

\* shift_argument without the negation.
shift_argument_unnegated(shift_steps) == shift_steps

\* The second argument of ps.shift_pitch: -shift_steps.
shift_argument(shift_steps) == -shift_steps

\* What a call did, up to the point it ended: the folder content it ran
\* on, whether it took the exact-match branch, whether it called
\* fs::read_dir, the candidate names, the nearest pitch, the stem of the
\* path it opened, shift_steps, and how it ended.
CallRecord(entries, pitch, exact, enumerated, names, new_pitch, opened, shift_steps, failure, outcome) ==
    [NoCall EXCEPT !.made = TRUE, !.entries = entries, !.pitch = pitch,
                   !.exact = exact, !.enumerated = enumerated,
                   !.audio_file_names = names, !.new_pitch = new_pitch,
                   !.opened = opened, !.shift_steps = shift_steps,
                   !.failure = failure, !.outcome = outcome]

\* `2f32.powf(meta_info.bits_per_sample as f32) / 2.0 - 1.0`, a whole
\* number, stored as it is.
normalization_bit(bits_per_sample) == (2^bits_per_sample) \div 2 - 1

\* `s.unwrap() as f32 / bit`: the f32 quotient of the two whole numbers,
\* stored as the pair that determines it.
normalized(s, bit) == [num |-> s, den |-> bit]

\* The single-channel reduction keeping the odd indices 1, 3, 5, ..
one_channel_odd(samples) ==
    [i \in 1..(Len(samples) \div 2) |-> samples[2 * i]]

\* samples.iter().enumerate().filter(|(i, _)| i % 2 == 0): the samples at
\* the (0-based) indices 0, 2, 4, .., which are the positions 1, 3, 5, ..
one_channel(samples) ==
    [i \in 1..((Len(samples) + 1) \div 2) |-> samples[2 * i - 1]]

\* An f32 the transform wrote, which the model does not determine.
Transformed == [num |-> 0, den |-> 0]

\* ps.shift_pitch(over_sampling, shift_semitones, in_b, out_b): the
\* content of out_b afterwards; a slice keeps its length.
shift_pitch(over_sampling, shift_semitones, in_b, out_b) ==
    [i \in 1..Len(out_b) |-> Transformed]

\* The part of generate_pitch_samples from FlacReader::open on: `path` is
\* the stem of pitch_file_path, `flac` what the decoder finds in the file.
\* FlacReader::open(..).unwrap() and s.unwrap() panic on an error.
read_and_shift(entries, pitch, exact, names, new_pitch, path, shift_steps, flac) ==
    LET rec(failure, outcome) ==
            CallRecord(entries, pitch, exact, ~exact, names, new_pitch,
                       Some(path), shift_steps, failure, outcome)
        is_file == \E e \in entries : e.stem = path /\ is_flac_file(e)
        bit == normalization_bit(flac.bits_per_sample)
        decoded == [i \in 1..Len(flac.samples) |->
                        normalized(flac.samples[i], bit)]
        samples == IF flac.channels = 2 THEN one_channel(decoded) ELSE decoded
        out_samples == shift_pitch(5, shift_argument(shift_steps), samples,
                                   samples)
    IN  IF ~(is_file /\ flac.opens) THEN rec("open", "panic")
        ELSE IF flac.channels > 2
        THEN [rec("channels", "Err") EXCEPT !.flac = flac]
        ELSE IF ~flac.samples_ok
        THEN [rec("sample", "panic") EXCEPT !.flac = flac]
        ELSE [rec("none", "Ok") EXCEPT
                 !.flac = flac,
                 !.handed = Some(shift_argument(shift_steps)),
                 !.samples = Some(samples),
                 !.returned = Some([sample_rate |-> flac.sample_rate,
                                    samples |-> out_samples])]

\* generate_pitch_samples(instrument, pitch).  folder: whether the sample
\* folder exists; entries: what it holds; read_dir: Err, or Ok of the
\* entries fs::read_dir yields, in its order; flac: what the decoder finds
\* in the file that gets opened.
generate_pitch_samples(folder, entries, pitch, read_dir, flac) ==
    LET pitch_file_name == pitch_file_stem(pitch)
    IN  IF ~folder
        THEN CallRecord(entries, pitch, FALSE, FALSE, <<>>, pitch, None, 0,
                        "folder", "Err")
        ELSE IF path_exists(entries, pitch_file_name)
        THEN read_and_shift(entries, pitch, TRUE, <<>>, pitch,
                            pitch_file_name, 0, flac)
        ELSE IF ~read_dir.ok
        THEN CallRecord(entries, pitch, FALSE, TRUE, <<>>, pitch, None, 0,
                        "read_dir", "Err")
        ELSE LET names == audio_file_names(read_dir.value)
                 results == [i \in 1..Len(names) |-> Pitch_try_from_String(names[i])]
             IN  IF \E i \in 1..Len(names) : ~results[i].ok
                 THEN CallRecord(entries, pitch, FALSE, TRUE, names, pitch,
                                 None, 0, "file name", "panic")
                 ELSE LET pitches == [i \in 1..Len(names) |-> results[i].value]
                          new_pitch == get_the_nearest_pitch(pitch, pitches)
                      IN  read_and_shift(entries, pitch, FALSE, names, new_pitch,
                                         pitch_file_stem(new_pitch),
                                         shift_steps_of(pitch, new_pitch), flac)

----------------------------------------------------------------------------
(* SpecResolver: get_the_nearest_pitch on a requested pitch and a list of  *)
(* candidates, then shift_steps from the requested and the returned pitch, *)
(* as generate_pitch_samples chains them; the lists are arbitrary          *)
(* (repetitions and the requested pitch included).                         *)

ResolverPitches ==
    {Pitch_new(n, o, a) : n \in {"C", "B"}, o \in 0..1,
                          a \in {"None", "Sharp", "Flat"}}

\* The candidates of get_the_nearest_pitch_tests: C0, D0, E0, F0, G0, A0, B0.
NaturalsOfOctave0 ==
    << Pitch_new_without_accidental("C", 0), Pitch_new_without_accidental("D", 0),
       Pitch_new_without_accidental("E", 0), Pitch_new_without_accidental("F", 0),
       Pitch_new_without_accidental("G", 0), Pitch_new_without_accidental("A", 0),
       Pitch_new_without_accidental("B", 0) >>

InitResolver ==
    /\ overflow_checks \in BOOLEAN
    /\ self \in ResolverPitches
    /\ others \in SeqsUpTo(ResolverPitches, MaxOthers) \cup {NaturalsOfOctave0}
    /\ nearest = None
    /\ shift = None
    /\ IntervalIdle /\ TextIdle /\ PlayerIdle
    /\ ScaleIdle /\ CoordinateIdle

\* let new_pitch = self.get_the_nearest_pitch(others);
GetTheNearestPitch ==
    /\ nearest = None
    /\ nearest' = Some(get_the_nearest_pitch(self, others))
    /\ UNCHANGED <<scaleVars, coordinateVars,
                   overflow_checks, self, others, shift, intervalVars,
                   textVars, playerVars>>

\* shift_steps from self and new_pitch
ShiftSteps ==
    /\ nearest # None
    /\ shift = None
    /\ shift' = Some(shift_steps_of(self, nearest[1]))
    /\ UNCHANGED <<scaleVars, coordinateVars,
                   overflow_checks, self, others, nearest, intervalVars,
                   textVars, playerVars>>

NextResolver ==
    \/ GetTheNearestPitch
    \/ ShiftSteps

SpecResolver == InitResolver /\ [][NextResolver]_vars

----------------------------------------------------------------------------
(* Spec: the sample folder changes, and generate_pitch_samples is called.  *)

\* The pitches of the sample files that may be in the folder.
SamplePitches ==
    { Pitch_new_without_accidental("C", 0), Pitch_new("C", 0, "Sharp"),
      Pitch_new("D", 0, "Flat"), Pitch_new_without_accidental("B", 0),
      Pitch_new_without_accidental("C", 1) }

\* What the folder may hold: sample files, a .flac file whose name is no
\* pitch, a file that is no .flac, and a directory named like a sample.
FolderEntries ==
    {Entry(Pitch_fmt(p), "flac", "file") : p \in SamplePitches}
        \cup { Entry(<<"H", "0">>, "flac", "file"),
               Entry(<<"C", "0">>, "txt", "file"),
               Entry(<<"E", "0">>, "flac", "dir") }

\* The pitches asked for.
RequestPitches ==
    SamplePitches \cup { Pitch_new_without_accidental("E", 0),
                         Pitch_new_without_accidental("D", 0),
                         Pitch_new_without_accidental("C", -1) }

\* What fs::read_dir may yield for a folder: the entries in any order;
\* an entry whose read fails is dropped by filter_map(|entry| entry.ok()).
Listings(entries) ==
    { q \in SeqsUpTo(entries, Cardinality(entries)) :
        \A i \in 1..Len(q), j \in 1..Len(q) : i # j => q[i] # q[j] }

\* A decoded stream holds at most MaxSamples samples.
MaxSamples == 3

\* The interleaved samples s[0], s[1], .. of a stream of n samples, all
\* different: 1, 2, .., n.
RawSamples(n) == [i \in 1..n |-> i]

\* A file that opens as a FLAC stream.
Flac(channels, samples, samples_ok) ==
    [opens |-> TRUE, channels |-> channels, bits_per_sample |-> 16,
     sample_rate |-> 48000, samples |-> samples, samples_ok |-> samples_ok]

\* What the decoder may find in a file: no FLAC stream; a stream of three
\* channels; a stream with a sample that fails to decode; a mono or stereo
\* stream of up to MaxSamples samples.
FlacInputs ==
    {NoFlac, Flac(3, RawSamples(1), TRUE)}
        \cup {Flac(c, RawSamples(1), FALSE) : c \in 1..2}
        \cup {Flac(c, RawSamples(n), TRUE) : c \in 1..2, n \in 0..MaxSamples}

Init ==
    /\ overflow_checks \in BOOLEAN
    /\ folder_exists \in BOOLEAN
    /\ dir = {}
    /\ call = NoCall
    /\ earlier = NoCall
    /\ IntervalIdle /\ TextIdle /\ ResolverIdle
    /\ ScaleIdle /\ CoordinateIdle

\* A file or directory appears in the sample folder.  (A change of the
\* folder also ends the model's record of the last call.)
AddEntry ==
    /\ folder_exists
    /\ Cardinality(dir) < MaxEntries
    /\ \E e \in FolderEntries \ dir :
          dir' = dir \cup {e}
    /\ call' = NoCall
    /\ UNCHANGED <<scaleVars, coordinateVars,
                   overflow_checks, earlier, folder_exists, intervalVars, textVars,
                   resolverVars>>

\* A file or directory disappears from the sample folder.
RemoveEntry ==
    /\ \E e \in dir :
          dir' = dir \ {e}
    /\ call' = NoCall
    /\ UNCHANGED <<scaleVars, coordinateVars,
                   overflow_checks, earlier, folder_exists, intervalVars, textVars,
                   resolverVars>>

\* The caller is done with what the last call returned.
DropResult ==
    /\ call.made
    /\ call' = NoCall
    /\ UNCHANGED <<scaleVars, coordinateVars,
                   overflow_checks, earlier, folder_exists, dir, intervalVars, textVars,
                   resolverVars>>

\* generate_pitch_samples(instrument, pitch)
GeneratePitchSamples ==
    /\ ~call.made
    /\ \E pitch \in RequestPitches,
          read_dir \in {Err(<<>>)} \cup {Ok(q) : q \in Listings(dir)},
          flac \in FlacInputs :
          call' = generate_pitch_samples(folder_exists, dir, pitch, read_dir, flac)
    /\ UNCHANGED <<scaleVars, coordinateVars,
                   overflow_checks, earlier, folder_exists, dir, intervalVars, textVars,
                   resolverVars>>

Next ==
    \/ AddEntry
    \/ RemoveEntry
    \/ GeneratePitchSamples
    \/ DropResult

Spec == Init /\ [][Next]_vars

----------------------------------------------------------------------------
(* SpecCalls: generate_pitch_samples is called again and again while asset *)
(* files are added to and removed from the sample folder; the records of   *)
(* the last call and of the call before it are kept.                       *)

\* The asset files that come and go.
CallAssets ==
    {Entry(Pitch_fmt(Pitch_new_without_accidental(n, 0)), "flac", "file") :
        n \in {"C", "E", "B"}}

\* The pitches asked for: one between two assets, one that has an asset.
CallPitches ==
    { Pitch_new_without_accidental("D", 0), Pitch_new_without_accidental("C", 0) }

InitCalls ==
    /\ overflow_checks = FALSE
    /\ folder_exists = TRUE
    /\ dir = {}
    /\ call = NoCall
    /\ earlier = NoCall
    /\ IntervalIdle /\ TextIdle /\ ResolverIdle
    /\ ScaleIdle /\ CoordinateIdle

\* An asset file appears in the sample folder.
AssetAdded ==
    /\ Cardinality(dir) < MaxEntries
    /\ \E e \in CallAssets \ dir :
          dir' = dir \cup {e}
    /\ UNCHANGED <<scaleVars, coordinateVars, overflow_checks, folder_exists,
                   call, earlier, intervalVars, textVars, resolverVars>>

\* An asset file disappears from the sample folder.
AssetRemoved ==
    /\ \E e \in dir :
          dir' = dir \ {e}
    /\ UNCHANGED <<scaleVars, coordinateVars, overflow_checks, folder_exists,
                   call, earlier, intervalVars, textVars, resolverVars>>

\* generate_pitch_samples(instrument, pitch), after whatever call came
\* before.
CallAgain ==
    /\ \E pitch \in CallPitches,
          read_dir \in {Err(<<>>)} \cup {Ok(q) : q \in Listings(dir)} :
          call' = generate_pitch_samples(folder_exists, dir, pitch, read_dir,
                                         Flac(1, RawSamples(1), TRUE))
    /\ earlier' = call
    /\ UNCHANGED <<scaleVars, coordinateVars, overflow_checks, folder_exists,
                   dir, intervalVars, textVars, resolverVars>>

NextCalls ==
    \/ AssetAdded
    \/ AssetRemoved
    \/ CallAgain

SpecCalls == InitCalls /\ [][NextCalls]_vars

----------------------------------------------------------------------------
(* Properties of SpecResolver *)

\* The distance of candidate i from the requested pitch, by coordinates.
CandidateDistance(i) ==
    LET d == Coordinate(others[i]) - Coordinate(self)
    IN  IF d < 0 THEN -d ELSE d

\* C4: for every requested pitch and every non-empty candidate list,
\* get_the_nearest_pitch returns a member of the list at minimal absolute
\* coordinate difference from the requested pitch, and among the candidates
\* at that distance the first in list order.
C4_NearestIsFirstMinimal ==
    (nearest # None /\ others # <<>>) =>
        \E i \in 1..Len(others) :
            /\ nearest[1] = others[i]
            /\ \A j \in 1..Len(others) : CandidateDistance(j) >= CandidateDistance(i)
            /\ \A j \in 1..(i - 1) : CandidateDistance(j) > CandidateDistance(i)

\* C4 witness: C1 has been resolved against C0, D0, E0, F0, G0, A0, B0 and
\* B0 returned.
C4_Witness ==
    /\ self = Pitch_new_without_accidental("C", 1)
    /\ others = NaturalsOfOctave0
    /\ nearest = Some(Pitch_new_without_accidental("B", 0))

\* C5: resolving a pitch against an empty candidate list, or against a list
\* that holds only that pitch, returns a pitch equal to the requested one
\* (the same coordinate), and the shift computed from the result is zero.
C5_ResolverIdentity ==
    (nearest # None /\ \A i \in 1..Len(others) : others[i] = self) =>
        /\ Coordinate(nearest[1]) = Coordinate(self)
        /\ shift # None => shift[1] = 0

\* C5 witness: a pitch has been resolved against the empty list and the
\* shift computed.
C5_Witness ==
    /\ others = <<>>
    /\ nearest # None
    /\ shift # None

----------------------------------------------------------------------------
(* Properties of Spec *)

\* C3: when no exact-match asset exists, the amount handed to the
\* pitch-shift transform is (coordinate(requested) - coordinate(chosen)) /
\* 0.5 semitones: positive when the chosen sample is lower than the
\* requested pitch, negative when it is higher, zero when they are equal.
C3_SignedShift ==
    (call.made /\ ~call.exact /\ call.handed # None) =>
        LET requested == Coordinate(call.pitch)
            chosen == Coordinate(call.new_pitch)
        IN  /\ call.handed[1] = requested - chosen
            /\ chosen < requested => call.handed[1] > 0
            /\ chosen > requested => call.handed[1] < 0
            /\ chosen = requested => call.handed[1] = 0

\* C3 witness: a call without exact match chose a lower sample and handed a
\* positive amount to the transform.
C3_Witness ==
    /\ call.made
    /\ ~call.exact
    /\ call.handed # None
    /\ call.audio_file_names # <<>>
    /\ Coordinate(call.new_pitch) < Coordinate(call.pitch)
    /\ call.handed[1] > 0

\* C10: a call in which the chosen asset file cannot be opened, or a sample
\* cannot be decoded, returns an error value to the caller; it does not
\* abort the calling thread.
C10_DecodeFailureIsReturned ==
    (call.made /\ call.failure \in {"open", "sample"}) =>
        /\ call.outcome = "Err"
        /\ call.handed = None

\* The folder content holds an asset file of this name: a regular file
\* <stem>.flac.
HasAssetFile(entries, stem) ==
    \E e \in entries : e.stem = stem /\ e.ext = "flac" /\ e.kind = "file"

\* C14: when the file <format(requested pitch)>.flac is in the sample
\* folder, the call takes that file (it is the one path it opens), hands a
\* zero amount to the pitch-shift transform, and neither enumerates the
\* folder nor parses a file name, whatever else the folder holds.
C14_ExactMatch ==
    (call.made /\ folder_exists
        /\ HasAssetFile(call.entries, Pitch_fmt(call.pitch))) =>
        /\ call.exact
        /\ call.opened = Some(Pitch_fmt(call.pitch))
        /\ ~call.enumerated
        /\ call.audio_file_names = <<>>
        /\ call.failure \notin {"read_dir", "file name"}
        /\ call.handed # None => call.handed[1] = 0

\* C14 witness: a call found its exact-match file beside a .flac file whose
\* name is no pitch, decoded it and handed zero to the transform.
C14_Witness ==
    /\ call.made
    /\ call.exact
    /\ Entry(<<"H", "0">>, "flac", "file") \in call.entries
    /\ call.opened = Some(Pitch_fmt(call.pitch))
    /\ call.handed = Some(0)
    /\ call.outcome = "Ok"

\* The samples of s at the even indices 0, 2, 4, .. (s[j] is the element at
\* position j + 1), in order.
EvenIndexed(s) ==
    LET even == {j \in 0..(Len(s) - 1) : j % 2 = 0}
    IN  [k \in 1..Cardinality(even) |-> s[2 * (k - 1) + 1]]

\* Sample s of an asset of `bits` bits per sample, normalized: s divided by
\* 2^(bits - 1) - 1.
Normalized(s, bits) == [num |-> s, den |-> 2^(bits - 1) - 1]

\* C15: the sequence handed to the pitch-shift transform is, for a
\* two-channel asset, the normalized samples at the even indices of the
\* interleaved sequence, in order, and for a one-channel asset the whole
\* normalized sequence; the returned buffer has the length of the sequence
\* handed to the transform, and the returned sample rate is the asset's.
C15_StereoDecimation ==
    (call.made /\ call.samples # None) =>
        LET asset == call.flac
            whole == [i \in 1..Len(asset.samples) |->
                         Normalized(asset.samples[i], asset.bits_per_sample)]
        IN  /\ asset.channels = 2 => call.samples[1] = EvenIndexed(whole)
            /\ asset.channels = 1 => call.samples[1] = whole
            /\ call.returned # None
            /\ Len(call.returned[1].samples) = Len(call.samples[1])
            /\ call.returned[1].sample_rate = asset.sample_rate

\* C15 witness: a two-channel asset of three samples has been decoded and
\* its first and third sample handed to the transform.
C15_Witness ==
    /\ call.made
    /\ call.flac.channels = 2
    /\ Len(call.flac.samples) = 3
    /\ call.samples = Some(<<Normalized(call.flac.samples[1], 16),
                             Normalized(call.flac.samples[3], 16)>>)
    /\ call.returned # None

\* C20: when the sample folder exists and every .flac file in it has a
\* name that parses as a pitch, the path a call opens for decoding names a
\* file present in the folder, for every requested pitch and every folder
\* content, the folder without .flac file included.
C20_OpenedPathExists ==
    (/\ call.made
     /\ folder_exists
     /\ \A e \in call.entries :
            is_flac_file(e) => Pitch_try_from_String(e.stem).ok
     /\ call.opened # None) =>
        HasAssetFile(call.entries, call.opened[1])

----------------------------------------------------------------------------
(* Properties of SpecCalls *)

\* The distance of the candidate named `name` from the requested pitch.
NameDistance(name, requested) ==
    LET d == Coordinate(Pitch_try_from_String(name).value) - Coordinate(requested)
    IN  IF d < 0 THEN -d ELSE d

\* C18: whatever calls came before and however the folder changed between
\* them, the candidates of a call are asset files of the folder as it is at
\* that call, and the asset it opens and its shift are fixed by the
\* requested pitch and that folder: the exact-match file with a zero shift
\* when it is there, otherwise a nearest of this call's candidates (the
\* requested pitch itself when there is none) with the shift from it to the
\* requested pitch.
C18_CallsAreIndependent ==
    call.made =>
        LET names == call.audio_file_names
            chosen == call.new_pitch
        IN  /\ \A i \in 1..Len(names) : HasAssetFile(call.entries, names[i])
            /\ call.opened # None =>
                  /\ call.opened = Some(Pitch_fmt(chosen))
                  /\ call.shift_steps = Coordinate(chosen) - Coordinate(call.pitch)
                  /\ HasAssetFile(call.entries, Pitch_fmt(call.pitch)) =>
                        chosen = call.pitch
                  /\ (~HasAssetFile(call.entries, Pitch_fmt(call.pitch))
                        /\ names = <<>>) => chosen = call.pitch
                  /\ (~HasAssetFile(call.entries, Pitch_fmt(call.pitch))
                        /\ names # <<>>) =>
                        \E i \in 1..Len(names) :
                            /\ Pitch_fmt(chosen) = names[i]
                            /\ \A j \in 1..Len(names) :
                                  NameDistance(names[j], call.pitch)
                                      >= NameDistance(names[i], call.pitch)

\* C18 witness: two successive calls for the same pitch, on different
\* folder contents, opened different assets with different shifts.
C18_Witness ==
    /\ earlier.made
    /\ call.made
    /\ earlier.pitch = call.pitch
    /\ earlier.entries # call.entries
    /\ earlier.opened # None
    /\ call.opened # None
    /\ earlier.opened # call.opened
    /\ earlier.shift_steps # call.shift_steps

====
